---- MODULE Spec2Model ----
(***************************************************************************)
(* Model of the TRVI pipeline of STRGNAILab/UTRI-pro:                      *)
(*   combine_ACS_and_OSM/dc_combine_analysis.py      (clip + metrics)      *)
(*   combine_ACS_and_OSM/DC_TRVI_Spatial_Analysis.py (weights + TRVI)      *)
(*                                                                         *)
(* Numbers.  The scripts compute in float64.  The model computes in exact  *)
(* integer / rational arithmetic: a rational is a record [num, den] with   *)
(* den > 0, and the inputs are integer valued (on which the float64        *)
(* operations of gini_coefficient are exact).  Rounding residues of        *)
(* float64 on other inputs are outside the model.                          *)
(***************************************************************************)
EXTENDS Integers, Sequences, FiniteSets, TLC

VARIABLES
    \* ---- dc_combine_analysis.py --------------------------------------
    G,                \* edges of the citywide MultiDiGraph: <<u, v, key>>
    nodes_within,     \* tract -> nodes of nodes_gdf within its polygon
    node_order,       \* iteration order of the graph's nodes
    income,           \* tract -> its 2022 income cell before line 62
    iterrows,         \* row order of tracts_with_income_gdf: position -> GEOID
    tract,            \* the per-tract loop's position (next row)
    subgraph,         \* the loop's variable `subgraph`
    results,          \* the list `results`
    raised,           \* the guarded metric calls that raised: <<tract, metric>>
    phase,            \* position of the run
    final_output_df,  \* the exported table (dc_utri_analysis.csv)
    \* ---- DC_TRVI_Spatial_Analysis.py ---------------------------------
    df_clean,         \* rows after dropna
    df_processed,     \* the indicators, normalised and direction-corrected
    weights_ewm,      \* d / d.sum()
    UTRI_physical,    \* the column df_analysis_subset['UTRI_physical']
    df_scaled,        \* MHI_Z, UTRI_physical_Z, TRVI per row
    df_final,         \* df_clean joined with the TRVI column
    gdf_tracts,       \* the tract polygons: GEOID and geometry (vertex set)
    gdf_analysis,     \* the inner merge of gdf_tracts and df_final
    weights,          \* Queen weights, row-standardized: i -> (j -> w_ij)
    moran_col,        \* position of the loop over the indicator columns
    moran,            \* the loop's variable `moran`: I and p_sim
    moran_results,    \* column -> Moran_I and p_value
    \* ---- gini_coefficient as a function ------------------------------
    gx,               \* the argument of the first call
    gret,             \* the returned value
    gx_kind,          \* what the caller passes: a list or a float64 ndarray
    gx_now,           \* the caller's sequence as it is now
    gret_first        \* the value the first call returned

pipeVars == <<G, nodes_within, node_order, income, iterrows, tract, subgraph, results,
              raised, final_output_df>>
ewmVars  == <<df_clean, df_processed, weights_ewm, UTRI_physical, df_scaled,
              df_final>>
spatialVars == <<gdf_tracts, gdf_analysis, weights, moran_col, moran,
                 moran_results>>
giniVars == <<gx, gret, gx_kind, gx_now, gret_first>>
vars     == <<pipeVars, phase, ewmVars, spatialVars, giniVars>>

\* NaN / None: a cell without a value.  Every cell is a record.
None == [null |-> TRUE]
Cell(v) == [v |-> v]

(***************************************************************************)
(* Bounds of the model                                                     *)
(***************************************************************************)
MaxNode == 6       \* nodes of the citywide graph are 1..MaxNode
NumTracts == 2     \* census tracts are 1..NumTracts
MaxRaises == 1     \* guarded metric calls that may raise in one run
MaxRows == 3       \* rows of the cleaned table given to the weighting
MaxMetric == 2     \* indicator values of that table are 0..MaxMetric
MaxLen == 3        \* longest argument of gini_coefficient
MaxVal == 3        \* largest value in an argument of gini_coefficient
MaxNeg == 2        \* most negative value is -MaxNeg
MaxRegions == 4    \* tracts of the maps given to Moran's I are 1..MaxRegions
MaxShape == 4      \* nodes of the one tract whose streets take every shape
NumPermutations == 2   \* random permutations behind one p-value

(***************************************************************************)
(* Generic helpers on sequences of integers                                *)
(***************************************************************************)
RECURSIVE SumSeq(_)
SumSeq(s) == IF s = <<>> THEN 0 ELSE Head(s) + SumSeq(Tail(s))

\* np.amin
Amin(s) == CHOOSE v \in {s[k] : k \in DOMAIN s} :
               \A k \in DOMAIN s : v <= s[k]

RemoveAt(s, k) == [j \in 1..(Len(s) - 1) |-> IF j < k THEN s[j] ELSE s[j + 1]]

\* np.sort (ascending)
RECURSIVE NpSort(_)
NpSortUnsorted(s) == s
NpSort(s) ==
    IF s = <<>> THEN <<>>
    ELSE LET k == CHOOSE k \in DOMAIN s : s[k] = Amin(s)
         IN  <<s[k]>> \o NpSort(RemoveAt(s, k))

\* the sum of a function's values
RECURSIVE SumOver(_)
SumOver(f) ==
    IF DOMAIN f = {} THEN 0
    ELSE LET i == CHOOSE i \in DOMAIN f : TRUE
         IN  f[i] + SumOver([j \in DOMAIN f \ {i} |-> f[j]])

RECURSIVE Gcd(_, _)
Gcd(a, b) == IF b = 0 THEN a ELSE Gcd(b, a % b)
Lcm(a, b) == (a * b) \div Gcd(a, b)

RECURSIVE LcmOfSet(_)
LcmOfSet(s) ==
    IF s = {} THEN 1
    ELSE LET v == CHOOSE v \in s : TRUE IN Lcm(v, LcmOfSet(s \ {v}))

RECURSIVE GcdOfSet(_)
GcdOfSet(s) ==
    IF s = {} THEN 0
    ELSE LET v == CHOOSE v \in s : TRUE IN Gcd(v, GcdOfSet(s \ {v}))

Abs(v) == IF v < 0 THEN 0 - v ELSE v

\* a column of integers without the common factor of its values
DividedBy(x, f) == IF f <= 1 THEN x ELSE [i \in DOMAIN x |-> x[i] \div f]
WithoutCommonFactor(x) == DividedBy(x, GcdOfSet({ Abs(x[i]) : i \in DOMAIN x }))

(***************************************************************************)
(* gini_coefficient (dc_combine_analysis.py:107-114)                       *)
(***************************************************************************)
\* line 109: if np.amin(x) < 0: x -= np.amin(x)
GiniShift(x) == IF Amin(x) < 0 THEN [k \in DOMAIN x |-> x[k] - Amin(x)] ELSE x

\* 2 * index - n - 1, index = 1..n (lines 112-114)
GiniCoeffOffByOne(k, n) == 2 * k - n
GiniCoeff(k, n) == 2 * k - n - 1

\* np.sum((2 * index - n - 1) * x)
GiniNumerator(x) ==
    LET n == Len(x) IN SumSeq([k \in 1..n |-> GiniCoeff(k, n) * x[k]])

gini_coefficient(x) ==
    LET x1 == GiniShift(x) IN
    IF SumSeq(x1) = 0 THEN [num |-> 0, den |-> 1]
    ELSE LET x2 == NpSort(x1)
             n  == Len(x2)
         IN  [num |-> GiniNumerator(x2), den |-> n * SumSeq(x2)]

(***************************************************************************)
(* Inputs of dc_combine_analysis.py                                        *)
(***************************************************************************)
Nodes  == 1..MaxNode
Tracts == 1..NumTracts

\* The value the Census API uses for "no estimate" (line 62).
CensusSentinel == -666666666

\* Candidate street segments <<u, v, key>>; key 1 is a parallel segment.
EdgePool == { <<1, 2, 0>>, <<1, 2, 1>>, <<3, 2, 0>>, <<1, 3, 0>>,
              <<5, 4, 0>>, <<5, 6, 0>>, <<6, 4, 0>>, <<3, 4, 0>> }

\* A MultiDiGraph numbers the parallel edges of a pair 0, 1, ...
Graphs == { g \in SUBSET EdgePool :
              \A e \in g : e[3] > 0 => <<e[1], e[2], e[3] - 1>> \in g }

\* Tracts are disjoint polygons: tract t holds the nodes cut[t-1]+1..cut[t].
Cuts == { c \in [0..NumTracts -> 0..MaxNode] :
            /\ c[0] = 0
            /\ c[NumTracts] = MaxNode
            /\ \A t \in Tracts : c[t - 1] <= c[t] }

Ascending  == [k \in 1..MaxNode |-> k]
Descending == [k \in 1..MaxNode |-> MaxNode + 1 - k]

\* The first tract's income cell of the 2022 table: no row (NaN after the
\* left merge of line 61), the sentinel, or an income; the others have one.
Incomes == { [t \in Tracts |-> IF t = 1 THEN c ELSE Cell(50000 + t)] :
               c \in {None, Cell(CensusSentinel), Cell(50001)} }

(***************************************************************************)
(* networkx operations used by the per-tract loop                          *)
(***************************************************************************)
\* G.subgraph(nodes).copy(): the nodes, and every edge (parallel ones
\* included) with both ends among them.
InducedEdgesOneEnd(edges, ns) == { e \in edges : e[1] \in ns \/ e[2] \in ns }
InducedEdges(edges, ns) == { e \in edges : e[1] \in ns /\ e[2] \in ns }

Subgraph(edges, ns) == [nodes |-> ns, edges |-> InducedEdges(edges, ns)]

\* Neighbours of the set s, edge direction ignored.
WeakNeighbours(g, s) ==
    { e[2] : e \in { f \in g.edges : f[1] \in s } } \cup
    { e[1] : e \in { f \in g.edges : f[2] \in s } }

\* _plain_bfs: the nodes reachable from s ignoring direction.
RECURSIVE PlainBfs(_, _)
PlainBfs(g, s) ==
    LET s2 == s \cup (WeakNeighbours(g, s) \cap g.nodes)
    IN  IF s2 = s THEN s ELSE PlainBfs(g, s2)

\* Iteration order of the subgraph's nodes.
NodeIter(g) == SelectSeq(node_order, LAMBDA v : v \in g.nodes)

\* nx.weakly_connected_components: the components in order of discovery.
RECURSIVE ComponentsFrom(_, _, _)
ComponentsFrom(g, order, seen) ==
    IF order = <<>> THEN <<>>
    ELSE IF Head(order) \in seen THEN ComponentsFrom(g, Tail(order), seen)
    ELSE LET c == PlainBfs(g, {Head(order)})
         IN  <<c>> \o ComponentsFrom(g, Tail(order), seen \cup c)

weakly_connected_components(g) == ComponentsFrom(g, NodeIter(g), {})

\* max(components, key=len): the first of the largest.
RECURSIVE MaxByLenFrom(_, _)
MaxByLenFrom(best, rest) ==
    IF rest = <<>> THEN best
    ELSE IF Cardinality(Head(rest)) > Cardinality(best)
         THEN MaxByLenFrom(Head(rest), Tail(rest))
         ELSE MaxByLenFrom(best, Tail(rest))

RECURSIVE MaxByLenLastFrom(_, _)
MaxByLenLastFrom(best, rest) ==
    IF rest = <<>> THEN best
    ELSE IF Cardinality(Head(rest)) >= Cardinality(best)
         THEN MaxByLenLastFrom(Head(rest), Tail(rest))
         ELSE MaxByLenLastFrom(best, Tail(rest))

MaxByLenLast(cs) == MaxByLenLastFrom(Head(cs), Tail(cs))
MaxByLen(cs) == MaxByLenFrom(Head(cs), Tail(cs))

(***************************************************************************)
(* The networkx calls of the per-tract loop (dc_combine_analysis.py:147-167)*)
(*                                                                         *)
(* A subgraph is [nodes, edges], its edges <<u, v, key>> without loops.    *)
(* The calls' values are exact: a rational [num, den], and for the degree  *)
(* assortativity its three moments.  The street segments of a subgraph     *)
(* have the same 'length'.                                                 *)
(***************************************************************************)
Successors(g, v)   == { e[2] : e \in { f \in g.edges : f[1] = v } }
Predecessors(g, v) == { e[1] : e \in { f \in g.edges : f[2] = v } }

\* nx.Graph(subgraph): direction and parallel edges collapse.
GraphKeepingDirection(g) ==
    [nodes |-> g.nodes, adj |-> [v \in g.nodes |-> Successors(g, v)]]
Graph(g) ==
    [nodes |-> g.nodes,
     adj   |-> [v \in g.nodes |-> Successors(g, v) \cup Predecessors(g, v)]]

\* Breadth-first search: the nodes reached from the frontier, with their
\* distance.
RECURSIVE Levels(_, _, _, _)
Levels(adj, frontier, seen, d) ==
    IF frontier = {} THEN <<>>
    ELSE LET next == UNION { adj[v] : v \in frontier } \ seen
         IN  [v \in frontier |-> d] @@ Levels(adj, next, seen \cup next, d + 1)

\* nx.single_source_shortest_path_length
shortest_path_length(adj, s) == Levels(adj, {s}, {s}, 0)

\* nx.global_efficiency(G): the sum of 1 / distance over the ordered pairs
\* with a path, divided by n * (n - 1); 0 for fewer than two nodes.
global_efficiency(ug) ==
    LET n      == Cardinality(ug.nodes)
        denom  == n * (n - 1)
        L      == LcmOfSet(1..(n - 1))
        length == [s \in ug.nodes |-> shortest_path_length(ug.adj, s)]
        g_eff  == SumOver([s \in ug.nodes |->
                     SumOver([t \in DOMAIN length[s] \ {s} |->
                                 L \div length[s][t]])])
    IN  IF denom # 0 THEN [num |-> g_eff, den |-> L * denom]
        ELSE [num |-> 0, den |-> 1]

\* nx.clustering(G)[v]: t / (d * (d - 1)), t counting the ordered pairs of
\* adjacent neighbours; 0 where t = 0.
clustering(ug, v) ==
    LET vs == ug.adj[v] \ {v}
        d  == Cardinality(vs)
        t  == Cardinality({ p \in vs \X vs : p[1] # p[2] /\ p[2] \in ug.adj[p[1]] })
    IN  IF t = 0 THEN [num |-> 0, den |-> 1] ELSE [num |-> t, den |-> d * (d - 1)]

\* nx.average_clustering(G): sum(c) / len(c) over every node
average_clustering_nonzero(ug) ==
    LET c  == [v \in ug.nodes |-> clustering(ug, v)]
        nz == { v \in ug.nodes : c[v].num # 0 }
        L  == LcmOfSet({ c[v].den : v \in ug.nodes })
    IN  [num |-> SumOver([v \in nz |-> c[v].num * (L \div c[v].den)]),
         den |-> L * Cardinality(nz)]
average_clustering(ug) ==
    LET c == [v \in ug.nodes |-> clustering(ug, v)]
        L == LcmOfSet({ c[v].den : v \in ug.nodes })
    IN  [num |-> SumOver([v \in ug.nodes |-> c[v].num * (L \div c[v].den)]),
         den |-> L * Cardinality(ug.nodes)]

\* G.out_degree / G.in_degree of a MultiDiGraph: parallel edges count.
OutDegree(g, v) == Cardinality({ e \in g.edges : e[1] = v })
InDegree(g, v)  == Cardinality({ e \in g.edges : e[2] = v })

\* nx.degree_assortativity_coefficient(subgraph): Pearson's r of
\* (out-degree of the source, in-degree of the target) over the edges,
\*   r = cov / sqrt(vara * varb),
\* in units of 1 / T^2.  A zero variance gives 0 / 0 = NaN without raising.
degree_assortativity_coefficient(g) ==
    LET T   == Cardinality(g.edges)
        x   == [e \in g.edges |-> OutDegree(g, e[1])]
        y   == [e \in g.edges |-> InDegree(g, e[2])]
        Sx  == SumOver(x)
        Sy  == SumOver(y)
        Sxx == SumOver([e \in g.edges |-> x[e] * x[e]])
        Syy == SumOver([e \in g.edges |-> y[e] * y[e]])
        Sxy == SumOver([e \in g.edges |-> x[e] * y[e]])
        vara == T * Sxx - Sx * Sx
        varb == T * Syy - Sy * Sy
    IN  IF vara * varb = 0 THEN None
        ELSE [cov |-> T * Sxy - Sx * Sy, vara |-> vara, varb |-> varb]

\* The number of shortest paths from s to t, dist the distances from s.
RECURSIVE Sigma(_, _, _, _)
Sigma(adj, dist, s, t) ==
    IF t = s THEN 1
    ELSE SumOver([p \in { q \in DOMAIN dist : dist[q] = dist[t] - 1 /\ t \in adj[q] }
                    |-> Sigma(adj, dist, s, p)])

\* nx.edge_betweenness_centrality(subgraph, weight='length') on segments of
\* one length: an edge's value is the sum over the pairs (s, t) of the share
\* of the shortest s-t paths through it, divided among its parallel keys.
\* The values are given as integers over one common denominator, which
\* leaves their Gini coefficient unchanged.
edge_betweenness_centrality(g) ==
    LET adj  == [v \in g.nodes |-> Successors(g, v)]
        dist == [s \in g.nodes |-> shortest_path_length(adj, s)]
        sig  == [s \in g.nodes |->
                    [t \in DOMAIN dist[s] |-> Sigma(adj, dist[s], s, t)]]
        st   == { p \in g.nodes \X g.nodes : p[1] # p[2] /\ p[2] \in DOMAIN dist[p[1]] }
        D    == LcmOfSet({ sig[p[1]][p[2]] : p \in st })
        through(v, w) ==
            { p \in st : /\ v \in DOMAIN dist[p[1]]
                         /\ p[2] \in DOMAIN dist[w]
                         /\ dist[p[1]][v] + 1 + dist[w][p[2]] = dist[p[1]][p[2]] }
        credit(v, w) ==
            SumOver([p \in through(v, w) |->
                        sig[p[1]][v] * sig[w][p[2]] * (D \div sig[p[1]][p[2]])])
        keys(v, w) == Cardinality({ e \in g.edges : e[1] = v /\ e[2] = w })
        K    == LcmOfSet({ keys(e[1], e[2]) : e \in g.edges })
    IN  [e \in g.edges |-> credit(e[1], e[2]) * (K \div keys(e[1], e[2]))]

\* list(d.values())
RECURSIVE Values(_)
Values(f) ==
    IF DOMAIN f = {} THEN <<>>
    ELSE LET i == CHOOSE i \in DOMAIN f : TRUE
         IN  <<f[i]>> \o Values([j \in DOMAIN f \ {i} |-> f[j]])

(***************************************************************************)
(* Step 4: the per-tract loop (dc_combine_analysis.py:116-169)             *)
(***************************************************************************)
MetricNames == {"global_permeability", "avg_clustering_coeff",
                "degree_assortativity", "gini_edge_betweenness"}

\* The value a metric's call returns on the subgraph g, written as the call:
\* the calls are functions of the subgraph alone.  A NaN is a cell without a
\* value.
LibraryValueZeroForNaN(m, g) ==
    IF m = "degree_assortativity" /\ degree_assortativity_coefficient(g) = None
    THEN Cell(0)
    ELSE [fn |-> m, on |-> g]
LibraryValue(m, g) ==
    IF m = "degree_assortativity" /\ degree_assortativity_coefficient(g) = None
    THEN None
    ELSE [fn |-> m, on |-> g]

\* Pearson's r as a rational, where the two variances are equal.
Pearson(r) == IF r.vara = r.varb THEN [num |-> r.cov, den |-> r.vara] ELSE r

\* The number a cell holds.
Number(cell) ==
    IF "v" \in DOMAIN cell THEN [num |-> cell.v, den |-> 1]
    ELSE IF cell.fn = "global_permeability"
         THEN global_efficiency(Graph(cell.on))
    ELSE IF cell.fn = "avg_clustering_coeff"
         THEN average_clustering(Graph(cell.on))
    ELSE IF cell.fn = "degree_assortativity"
         THEN Pearson(degree_assortativity_coefficient(cell.on))
    ELSE gini_coefficient(Values(edge_betweenness_centrality(cell.on)))

ErrorRecord(t, msg) == [GEOID |-> t, error |-> msg]

\* Four try/except blocks: a call that raises leaves None in its own field.
MetricsRecordAbortAll(t, g, fail) ==
    [GEOID |-> t,
     global_permeability   |-> IF fail # {} THEN None
                               ELSE LibraryValue("global_permeability", g),
     avg_clustering_coeff  |-> IF fail # {} THEN None
                               ELSE LibraryValue("avg_clustering_coeff", g),
     degree_assortativity  |-> IF fail # {} THEN None
                               ELSE LibraryValue("degree_assortativity", g),
     gini_edge_betweenness |-> IF fail # {} THEN None
                               ELSE LibraryValue("gini_edge_betweenness", g)]
MetricsRecord(t, g, fail) ==
    [GEOID |-> t,
     global_permeability   |-> IF "global_permeability" \in fail THEN None
                               ELSE LibraryValue("global_permeability", g),
     avg_clustering_coeff  |-> IF "avg_clustering_coeff" \in fail THEN None
                               ELSE LibraryValue("avg_clustering_coeff", g),
     degree_assortativity  |-> IF "degree_assortativity" \in fail THEN None
                               ELSE LibraryValue("degree_assortativity", g),
     gini_edge_betweenness |-> IF "gini_edge_betweenness" \in fail THEN None
                               ELSE LibraryValue("gini_edge_betweenness", g)]

\* line 119: tract_geoid = tract['GEOID'], of the row the loop is at
tract_geoid == iterrows[tract]

\* the loop left after its first row
NextTractLeavingEarly ==
    /\ tract' = tract + 1
    /\ phase' = "merge"
\* `continue` / end of the body: the next row, or the end of the loop.
NextTract ==
    /\ tract' = tract + 1
    /\ phase' = IF tract + 1 > NumTracts THEN "merge" ELSE "select"

\* line 125
TooFewNodesLoose(ns) == Cardinality(ns) < 2
TooFewNodes(ns) == Cardinality(ns) < 3

\* lines 118-127: select the tract's nodes; fewer than 3: record and continue
SelectNodes ==
    /\ phase = "select"
    /\ IF TooFewNodes(nodes_within[tract_geoid])
       THEN /\ results' = Append(results, ErrorRecord(tract_geoid, "Not enough nodes"))
            /\ NextTract
       ELSE /\ phase' = "clip"
            /\ UNCHANGED <<tract, results>>
    /\ UNCHANGED <<G, nodes_within, node_order, income, iterrows, subgraph, raised,
                   final_output_df, ewmVars, spatialVars, giniVars>>

\* line 130 without .copy(), the tract's streets taken out of the one graph
ClipInPlace ==
    /\ phase = "clip"
    /\ subgraph' = Subgraph(G, nodes_within[tract_geoid])
    /\ G' = G \ subgraph'.edges
    /\ phase' = "reduce"
    /\ UNCHANGED <<nodes_within, node_order, income, iterrows, tract, results,
                   raised, final_output_df, ewmVars, spatialVars, giniVars>>
\* line 130: subgraph = G.subgraph(nodes_within_tract.index).copy()
Clip ==
    /\ phase = "clip"
    /\ subgraph' = Subgraph(G, nodes_within[tract_geoid])
    /\ phase' = "reduce"
    /\ UNCHANGED <<G, nodes_within, node_order, income, iterrows, tract, results, raised,
                   final_output_df, ewmVars, spatialVars, giniVars>>

\* lines 135-137
LargestComponentSkipped(g) == g
LargestComponent(g) ==
    IF Cardinality(g.nodes) > 0
    THEN Subgraph(g.edges, MaxByLen(weakly_connected_components(g)))
    ELSE g

\* line 140
NotViableLoose(g) == Cardinality(g.nodes) < 2 \/ Cardinality(g.edges) = 0
NotViable(g) == Cardinality(g.nodes) < 3 \/ Cardinality(g.edges) = 0

\* lines 135-142: keep the largest component; not viable: record and continue
Reduce ==
    /\ phase = "reduce"
    /\ subgraph' = LargestComponent(subgraph)
    /\ IF NotViable(subgraph')
       THEN /\ results' = Append(results, ErrorRecord(tract_geoid, "Subgraph not viable"))
            /\ NextTract
       ELSE /\ phase' = "metrics"
            /\ UNCHANGED <<tract, results>>
    /\ UNCHANGED <<G, nodes_within, node_order, income, iterrows, raised,
                   final_output_df, ewmVars, spatialVars, giniVars>>

\* lines 144-169: the four guarded metric computations and the append
ComputeMetrics ==
    /\ phase = "metrics"
    /\ \E fail \in SUBSET MetricNames :
         /\ Cardinality(raised) + Cardinality(fail) <= MaxRaises
         /\ raised' = raised \cup { <<tract_geoid, m>> : m \in fail }
         /\ results' = Append(results, MetricsRecord(tract_geoid, subgraph, fail))
    /\ NextTract
    /\ UNCHANGED <<G, nodes_within, node_order, income, iterrows, subgraph,
                   final_output_df, ewmVars, spatialVars, giniVars>>

(***************************************************************************)
(* Step 5: consolidate and export (dc_combine_analysis.py:178-186)         *)
(***************************************************************************)
\* line 62: the sentinel becomes NaN
Median_Household_Income_Kept(t) == income[t]
Median_Household_Income(t) ==
    IF income[t] = Cell(CensusSentinel) THEN None ELSE income[t]

\* The columns of pd.DataFrame(results): the union of the records' keys.
ResultsColumns == UNION { DOMAIN results[k] : k \in DOMAIN results }

\* A cell of results_df: NaN where the record has no such key.
ResultsCell(rec, col) == IF col \in DOMAIN rec THEN rec[col] ELSE None

\* The left merge on GEOID: the tract's record in results.
ResultsRow(t) == results[CHOOSE k \in DOMAIN results : results[k].GEOID = t]

OutputRow(t) ==
    [GEOID |-> t,
     Median_Household_Income |-> Median_Household_Income(t),
     global_permeability   |-> ResultsCell(ResultsRow(t), "global_permeability"),
     avg_clustering_coeff  |-> ResultsCell(ResultsRow(t), "avg_clustering_coeff"),
     degree_assortativity  |-> ResultsCell(ResultsRow(t), "degree_assortativity"),
     gini_edge_betweenness |-> ResultsCell(ResultsRow(t), "gini_edge_betweenness")]

\* lines 178-186.  Selecting output_columns raises KeyError when results_df
\* has no metric column, which ends the script.
Merge ==
    /\ phase = "merge"
    /\ IF MetricNames \subseteq ResultsColumns
       THEN /\ final_output_df' = [t \in Tracts |-> OutputRow(t)]
            /\ phase' = "exported"
       ELSE /\ phase' = "aborted"
            /\ UNCHANGED final_output_df
    /\ UNCHANGED <<G, nodes_within, node_order, income, iterrows, tract,
                   subgraph, results, raised, ewmVars, spatialVars, giniVars>>

(***************************************************************************)
(* DC_TRVI_Spatial_Analysis.py:11-20: read the table, drop incomplete rows *)
(***************************************************************************)
DropNaSubset == MetricNames \cup {"Median_Household_Income"}

\* df.dropna(subset=[...]): the rows with a value in every listed column
DropNaIgnoringIncome(df) ==
    LET keep == { t \in DOMAIN df : \A c \in MetricNames : df[t][c] # None }
    IN  [t \in keep |-> df[t]]
DropNa(df) ==
    LET keep == { t \in DOMAIN df : \A c \in DropNaSubset : df[t][c] # None }
    IN  [t \in keep |-> df[t]]

ReadAndClean ==
    /\ phase = "exported"
    /\ df_clean' = DropNa(final_output_df)
    /\ phase' = "clean"
    /\ UNCHANGED <<pipeVars, df_processed, weights_ewm, UTRI_physical,
                   df_scaled, df_final, spatialVars, giniVars>>

(***************************************************************************)
(* The run of the two scripts on one city                                  *)
(***************************************************************************)
EwmIdle ==
    /\ df_clean = <<>> /\ df_processed = None /\ weights_ewm = None
    /\ UTRI_physical = None /\ df_scaled = None /\ df_final = None
SpatialIdle ==
    /\ gdf_tracts = <<>> /\ gdf_analysis = None /\ weights = None
    /\ moran_col = 1 /\ moran = None /\ moran_results = <<>>
GiniIdle ==
    /\ gx = <<>> /\ gret = None /\ gx_kind = "list" /\ gx_now = <<>>
    /\ gret_first = None
\* the first script is not part of the run: only its table may be there
PipeIdleBut ==
    /\ G = {} /\ nodes_within = <<>> /\ node_order = <<>> /\ income = <<>>
    /\ iterrows = <<>>
    /\ tract = 1 /\ subgraph = None /\ results = <<>> /\ raised = {}
PipeIdle == PipeIdleBut /\ final_output_df = None

Init ==
    /\ G \in Graphs
    /\ \E c \in Cuts : nodes_within = [t \in Tracts |-> (c[t - 1] + 1)..c[t]]
    /\ node_order \in {Ascending, Descending}
    /\ income \in Incomes
    /\ iterrows = [k \in Tracts |-> k]
    /\ tract = 1
    /\ subgraph = None
    /\ results = <<>>
    /\ raised = {}
    /\ phase = "select"
    /\ final_output_df = None
    /\ EwmIdle
    /\ SpatialIdle
    /\ GiniIdle

Next ==
    \/ SelectNodes
    \/ Clip
    \/ Reduce
    \/ ComputeMetrics
    \/ Merge
    \/ ReadAndClean

Spec == Init /\ [][Next]_vars

(***************************************************************************)
(* Properties of the per-tract loop                                        *)
(***************************************************************************)
IsMetricsRecord(rec) == "global_permeability" \in DOMAIN rec
InLoopBody == phase \in {"clip", "reduce", "metrics"}

\* C1: a tract with fewer than 3 nodes inside its polygon gets the record
\* 'Not enough nodes' (no metric field), and the loop never builds a subgraph
\* or computes a metric for it.
C1_InsufficientNodes ==
    /\ \A k \in DOMAIN results :
         Cardinality(nodes_within[results[k].GEOID]) < 3 =>
             results[k] = [GEOID |-> results[k].GEOID, error |-> "Not enough nodes"]
    /\ InLoopBody => Cardinality(nodes_within[tract_geoid]) >= 3

C1_Witness ==
    \E k \in DOMAIN results :
        /\ Cardinality(nodes_within[results[k].GEOID]) = 2
        /\ results[k] = [GEOID |-> results[k].GEOID, error |-> "Not enough nodes"]

\* C2: a tract with at least 3 selected nodes is 'Subgraph not viable' (no
\* metric field) if its reduced subgraph has < 3 nodes or no edge, and gets a
\* metric vector otherwise; metrics are computed only for such ok tracts.
ReducedSubgraphOf(t) == LargestComponent(Subgraph(G, nodes_within[t]))
Viable(g) == Cardinality(g.nodes) >= 3 /\ g.edges # {}

C2_ViabilityStatus ==
    /\ \A k \in DOMAIN results :
         LET t  == results[k].GEOID
             ok == Viable(ReducedSubgraphOf(t))
         IN
         /\ Cardinality(nodes_within[t]) >= 3 =>
               IF ok
               THEN DOMAIN results[k] = {"GEOID"} \cup MetricNames
               ELSE results[k] = [GEOID |-> t, error |-> "Subgraph not viable"]
         /\ IsMetricsRecord(results[k]) =>
               Cardinality(nodes_within[t]) >= 3 /\ ok
    /\ phase = "metrics" => Viable(subgraph)

C2_Witness ==
    \E k1, k2 \in DOMAIN results :
        /\ Cardinality(nodes_within[results[k1].GEOID]) >= 3
        /\ results[k1] = [GEOID |-> results[k1].GEOID, error |-> "Subgraph not viable"]
        /\ IsMetricsRecord(results[k2])

\* The tract whose reduced subgraph the variable `subgraph` holds (0: none).
ReducedTract ==
    IF phase = "metrics" THEN tract_geoid
    ELSE IF /\ phase \in {"select", "merge"}
            /\ results # <<>>
            /\ results[Len(results)] # [GEOID |-> results[Len(results)].GEOID,
                                        error |-> "Not enough nodes"]
         THEN results[Len(results)].GEOID
         ELSE 0

\* c is a weakly-connected component of the subgraph induced by ns: no edge
\* of G joins c to the rest of ns, and every split of c is crossed by an edge.
Joined(a, b) == \E e \in G : (e[1] \in a /\ e[2] \in b) \/ (e[1] \in b /\ e[2] \in a)
IsWeakComponent(c, ns) ==
    /\ c # {} /\ c \subseteq ns
    /\ ~Joined(c, ns \ c)
    /\ \A d \in SUBSET c : (d # {} /\ d # c) => Joined(d, c \ d)
FirstIndex(c) == CHOOSE k \in DOMAIN node_order :
                    /\ node_order[k] \in c
                    /\ \A j \in 1..(k - 1) : node_order[j] \notin c

\* C3: the retained nodes are a weakly-connected component of the induced
\* subgraph of maximum size; among components of that size it is the one
\* discovered first in the node iteration order.
C3_LargestComponent ==
    ReducedTract # 0 =>
        LET ns == nodes_within[ReducedTract]
            c  == subgraph.nodes
        IN  /\ IsWeakComponent(c, ns)
            /\ \A c2 \in SUBSET ns :
                 (c2 # c /\ Cardinality(c2) >= Cardinality(c)
                         /\ IsWeakComponent(c2, ns)) =>
                     /\ Cardinality(c2) = Cardinality(c)
                     /\ FirstIndex(c) < FirstIndex(c2)

\* two disjoint triangles in one tract: one is kept
C3_Witness ==
    /\ phase = "metrics"
    /\ nodes_within[tract_geoid] = 1..6
    /\ {<<1, 2, 0>>, <<3, 2, 0>>, <<1, 3, 0>>,
        <<5, 4, 0>>, <<5, 6, 0>>, <<6, 4, 0>>} \subseteq G
    /\ <<3, 4, 0>> \notin G
    /\ subgraph.nodes \in {{1, 2, 3}, {4, 5, 6}}

\* C4: the clipped subgraph has exactly the edges of G (parallel ones too)
\* with both ends among the selected nodes; the reduced one exactly those
\* with both ends in the kept component; no edge has an end outside.
C4_InducedEdges ==
    /\ phase = "reduce" =>
         /\ subgraph.nodes = nodes_within[tract_geoid]
         /\ subgraph.edges = { e \in G : e[1] \in nodes_within[tract_geoid]
                                        /\ e[2] \in nodes_within[tract_geoid] }
    /\ subgraph # None =>
         /\ subgraph.edges = { e \in G : e[1] \in subgraph.nodes
                                        /\ e[2] \in subgraph.nodes }
         /\ \A e \in subgraph.edges : {e[1], e[2]} \subseteq subgraph.nodes

C4_Witness ==
    /\ phase = "reduce"
    /\ {<<1, 2, 0>>, <<1, 2, 1>>} \subseteq subgraph.edges
    /\ \E e \in G : e[1] \in subgraph.nodes /\ e[2] \notin subgraph.nodes

\* Every split of the nodes of g is crossed by an edge.
WeaklyConnected(g) ==
    \A S \in SUBSET g.nodes :
        (S # {} /\ S # g.nodes) =>
            \E e \in g.edges : (e[1] \in S) # (e[2] \in S)

\* C26: a subgraph whose metrics are computed is weakly connected, lies
\* inside the tract, and has at least 3 nodes and at least 2 edges; in its
\* undirected view every node reaches every other and global_permeability
\* is strictly positive; the reduced subgraph of the tract recorded last, if
\* it has no edge, has fewer than 3 nodes.
C26_OkSubgraph ==
    /\ phase = "metrics" =>
         /\ WeaklyConnected(subgraph)
         /\ subgraph.nodes \subseteq nodes_within[tract_geoid]
         /\ Cardinality(subgraph.nodes) >= 3
         /\ Cardinality(subgraph.edges) >= 2
         /\ \A s \in subgraph.nodes :
                DOMAIN shortest_path_length(Graph(subgraph).adj, s) = subgraph.nodes
         /\ Number(LibraryValue("global_permeability", subgraph)).num > 0
    /\ results # <<>> =>
         LET t == results[Len(results)].GEOID
         IN  Cardinality(nodes_within[t]) >= 3 =>
                 (ReducedSubgraphOf(t).edges = {} =>
                      Cardinality(ReducedSubgraphOf(t).nodes) < 3)

\* a path of three nodes kept from a tract that holds more nodes
C26_Witness ==
    /\ phase = "metrics"
    /\ Cardinality(subgraph.nodes) = 3
    /\ Cardinality(subgraph.edges) = 2
    /\ Cardinality(nodes_within[tract_geoid]) > 3
    /\ Number(LibraryValue("global_permeability", subgraph)) = [num |-> 10, den |-> 12]

\* C5 (as claimed): per-tract failures never end the run; after the loop
\* every tract has exactly one record; a failed tract has four null metric
\* fields in the exported table and is in no later statistic (not in df_clean).
FailedTract(t) ==
    \E k \in DOMAIN results : results[k].GEOID = t /\ ~IsMetricsRecord(results[k])

C5_FailuresNeverAbort ==
    /\ phase # "aborted"
    /\ phase \in {"merge", "exported", "clean"} =>
         \A t \in Tracts :
             Cardinality({ k \in DOMAIN results : results[k].GEOID = t }) = 1
    /\ phase \in {"exported", "clean"} =>
         \A t \in Tracts : FailedTract(t) =>
             \A m \in MetricNames : final_output_df[t][m] = None
    /\ phase = "clean" =>
         \A t \in Tracts : FailedTract(t) => t \notin DOMAIN df_clean

\* C6: in a metrics record the field of a call that raised is None and
\* every other field holds its call's value on the reduced subgraph; the
\* record is appended whichever calls raised.
C6_IndependentGuards ==
    /\ \A k \in DOMAIN results : IsMetricsRecord(results[k]) =>
         LET g == ReducedSubgraphOf(results[k].GEOID) IN
         \A m \in MetricNames :
             IF <<results[k].GEOID, m>> \in raised
             THEN results[k][m] = None
             ELSE results[k][m] = LibraryValue(m, g)
    /\ \A c \in raised :
         \E k \in DOMAIN results :
             results[k].GEOID = c[1] /\ DOMAIN results[k] = {"GEOID"} \cup MetricNames

C6_Witness ==
    \E k \in DOMAIN results :
        /\ IsMetricsRecord(results[k])
        /\ <<results[k].GEOID, "global_permeability">> \in raised
        /\ results[k]["global_permeability"] = None
        /\ \A m \in MetricNames \ {"global_permeability"} : results[k][m] # None

(***************************************************************************)
(* The per-tract loop over the rows of the tract table in every order      *)
(***************************************************************************)
RowOrders == { p \in [Tracts -> Tracts] :
                 \A a, b \in Tracts : a # b => p[a] # p[b] }

InitOrder ==
    /\ G \in Graphs
    /\ \E c \in Cuts : nodes_within = [t \in Tracts |-> (c[t - 1] + 1)..c[t]]
    /\ node_order = Ascending
    /\ income = [t \in Tracts |-> Cell(50000 + t)]
    /\ iterrows \in RowOrders
    /\ tract = 1
    /\ subgraph = None
    /\ results = <<>>
    /\ raised = {}
    /\ phase = "select"
    /\ final_output_df = None
    /\ EwmIdle
    /\ SpatialIdle
    /\ GiniIdle

NextOrder ==
    \/ SelectNodes
    \/ Clip
    \/ Reduce
    \/ ComputeMetrics
    \/ Merge

SpecOrder == InitOrder /\ [][NextOrder]_vars

\* The record of tract t as a function of the graph, the tract's nodes and
\* the calls that raised for t: the row order and the loop's position do not
\* occur in it.
RecordOf(t) ==
    IF Cardinality(nodes_within[t]) < 3
    THEN ErrorRecord(t, "Not enough nodes")
    ELSE LET g == ReducedSubgraphOf(t)
         IN  IF ~Viable(g)
             THEN ErrorRecord(t, "Subgraph not viable")
             ELSE MetricsRecord(t, g, { m \in MetricNames : <<t, m>> \in raised })

\* Whatever the row order, the k-th record is of the k-th row's tract,
\* after the loop every tract has the record RecordOf gives it, and the
\* exported row of a tract holds that record's metrics.
SameMapping ==
    /\ \A k \in DOMAIN results : results[k].GEOID = iterrows[k]
    /\ phase \in {"merge", "exported", "aborted"} =>
         \A t \in Tracts : ResultsRow(t) = RecordOf(t)
    /\ phase = "exported" =>
         \A t \in Tracts : \A m \in MetricNames :
             final_output_df[t][m] = ResultsCell(ResultsRow(t), m)

\* A step of the loop leaves the graph, the tracts' node sets, the incomes,
\* the row order and every record already appended as they are.
LeavesOthersAlone ==
    /\ G' = G
    /\ nodes_within' = nodes_within
    /\ node_order' = node_order
    /\ income' = income
    /\ iterrows' = iterrows
    /\ \A k \in DOMAIN results :
         k \in DOMAIN results' /\ results'[k] = results[k]

GiniValues == (0 - MaxNeg)..MaxVal
GiniArgs == UNION { [1..n -> GiniValues] : n \in 1..MaxLen }
ArgKinds == {"list", "ndarray"}

InitGini ==
    /\ PipeIdle
    /\ EwmIdle
    /\ SpatialIdle
    /\ phase = "gini_call"
    /\ gx \in GiniArgs
    /\ gx_kind \in ArgKinds
    /\ gx_now = gx
    /\ gret = None
    /\ gret_first = None

\* line 108-109: np.asarray(x, dtype=np.float64) copies a list and returns a
\* float64 ndarray itself, and x -= np.amin(x) works in place: the caller's
\* ndarray is shifted with x.
CallerSees(x, kind) == IF kind = "ndarray" THEN GiniShift(x) ELSE x

\* the first call, on the argument
CallGini ==
    /\ phase = "gini_call"
    /\ gret' = gini_coefficient(gx_now)
    /\ gret_first' = gret'
    /\ gx_now' = CallerSees(gx_now, gx_kind)
    /\ phase' = "gini_returned"
    /\ UNCHANGED <<pipeVars, ewmVars, spatialVars, gx, gx_kind>>

\* a second call on the same sequence
CallGiniAgain ==
    /\ phase = "gini_returned"
    /\ gret' = gini_coefficient(gx_now)
    /\ gx_now' = CallerSees(gx_now, gx_kind)
    /\ phase' = "gini_returned_again"
    /\ UNCHANGED <<pipeVars, ewmVars, spatialVars, gx, gx_kind, gret_first>>

NextGini ==
    \/ CallGini
    \/ CallGiniAgain

SpecGini == InitGini /\ [][NextGini]_vars

AllEqual(x) == \A j, k \in DOMAIN x : x[j] = x[k]

\* C7: on an argument whose values are all equal (zero, positive or
\* negative) gini_coefficient returns 0.
C7_GiniConstantIsZero ==
    (phase = "gini_returned" /\ AllEqual(gx)) => gret.num = 0

C7_Witness ==
    /\ phase = "gini_returned"
    /\ Len(gx) >= 2 /\ AllEqual(gx) /\ gx[1] > 0
    /\ gret.num = 0 /\ gret.den = Len(gx) * Len(gx) * gx[1]

\* C8: on an argument of non-negative values the result lies in [0, 1].
C8_GiniInUnitInterval ==
    (phase = "gini_returned" /\ \A k \in DOMAIN gx : gx[k] >= 0) =>
        /\ gret.den > 0
        /\ 0 <= gret.num
        /\ gret.num <= gret.den

C8_Witness ==
    /\ phase = "gini_returned"
    /\ gx = <<3, 0, 1>>
    /\ gret = [num |-> 6, den |-> 12]

\* C23 (as claimed): whatever is passed, the caller's sequence holds the
\* same values after a call as before it, and a second call on it returns
\* what the first returned.
C23_GiniPureAsClaimed ==
    /\ phase \in {"gini_returned", "gini_returned_again"} => gx_now = gx
    /\ phase = "gini_returned_again" => gret = gret_first

(***************************************************************************)
(* DC_TRVI_Spatial_Analysis.py:46-73: the Entropy Weight Method            *)
(*                                                                         *)
(* A table is a function from its index to rows; a numeric cell is         *)
(* Cell(integer).  Normalised values are rationals [num, den].  np.log is  *)
(* a table of 1000 * ln(n) and the diversification d is kept in units of   *)
(* 1 / DScale; NaN is None.                                                *)
(***************************************************************************)
\* 1000 * ln(n), n = 1..24
LnTable == << 0, 693, 1099, 1386, 1609, 1792, 1946, 2079, 2197, 2303, 2398,
              2485, 2565, 2639, 2708, 2773, 2833, 2890, 2944, 2996, 3045,
              3091, 3135, 3178 >>
Ln(n) == LnTable[n]
DScale == 100

Range(f) == { f[i] : i \in DOMAIN f }
SetMin(s) == CHOOSE v \in s : \A w \in s : v <= w
SetMax(s) == CHOOSE v \in s : \A w \in s : v >= w

\* The raw values of a column, as integers over their common denominator
\* (a common positive factor leaves the normalised values unchanged).
Column(df, c) ==
    LET x == [i \in DOMAIN df |-> Number(df[i][c])]
        L == LcmOfSet({ x[i].den : i \in DOMAIN df })
    IN  [i \in DOMAIN df |-> x[i].num * (L \div x[i].den)]

\* MinMaxScaler().fit_transform: (x - min) / (max - min); a zero range is
\* replaced by 1, so a constant column becomes 0.
MinMax(col) ==
    LET lo == SetMin(Range(col))
        hi == SetMax(Range(col))
    IN  [i \in DOMAIN col |->
            [num |-> col[i] - lo, den |-> IF hi = lo THEN 1 ELSE hi - lo]]

\* 1 - normalised value
OneMinus(col) == [i \in DOMAIN col |-> [num |-> col[i].den - col[i].num,
                                        den |-> col[i].den]]

\* lines 59-65: permeability is kept, the other three are reversed
ProcessedColumnNoReversal(df, c) == MinMax(Column(df, c))
ProcessedColumn(df, c) ==
    IF c = "global_permeability"
    THEN MinMax(Column(df, c))
    ELSE OneMinus(MinMax(Column(df, c)))

\* line 70 for one column, as d = 1 - entropy in units of 1 / DScale.
\*   m = 1: k = 1 / np.log(1) = inf and the sum is 0: entropy = NaN.
\*   column sum 0: every p is NaN, the NaN-skipping sum is 0: entropy 0.
\*   p = 0: log(p) = -inf is replaced by 0: the entry adds 0.
\*   otherwise entropy = (ln S - sum(a ln a) / S) / ln m, with p = a / S,
\*   the a being the numerators without their common factor.
DiversificationOver(a) ==
    LET m == Cardinality(DOMAIN a)
        S == SumOver(a)
        alna == SumOver([i \in DOMAIN a |-> IF a[i] = 0 THEN 0
                                             ELSE a[i] * Ln(a[i])])
    IN  IF m = 1 THEN None
        ELSE IF S = 0 THEN Cell(DScale)
        ELSE Cell((DScale * (S * Ln(m) - S * Ln(S) + alna)) \div (S * Ln(m)))
Diversification(col) ==
    DiversificationOver(WithoutCommonFactor([i \in DOMAIN col |-> col[i].num]))

\* line 72: d / d.sum(); NaN in d makes every weight NaN, and so does 0 / 0
NormaliseWeights(d) ==
    IF \E c \in DOMAIN d : d[c] = None THEN [c \in DOMAIN d |-> None]
    ELSE LET total == SumOver([c \in DOMAIN d |-> d[c].v])
         IN  IF total = 0 THEN [c \in DOMAIN d |-> None]
             ELSE [c \in DOMAIN d |-> [num |-> d[c].v, den |-> total]]

\* lines 54-73.  MinMaxScaler raises ValueError on a table without rows,
\* which ends the script.
EntropyWeights ==
    /\ phase = "clean"
    /\ IF DOMAIN df_clean = {}
       THEN /\ phase' = "aborted"
            /\ UNCHANGED <<df_processed, weights_ewm>>
       ELSE /\ df_processed' =
                 LET cols == [c \in MetricNames |-> ProcessedColumn(df_clean, c)]
                 IN  [i \in DOMAIN df_clean |-> [c \in MetricNames |-> cols[c][i]]]
            /\ weights_ewm' = NormaliseWeights(
                 [c \in MetricNames |->
                     Diversification([i \in DOMAIN df_clean |-> df_processed'[i][c]])])
            /\ phase' = "weighted"
    /\ UNCHANGED <<pipeVars, df_clean, UTRI_physical, df_scaled, df_final,
                   spatialVars, giniVars>>

(***************************************************************************)
(* DC_TRVI_Spatial_Analysis.py:82-105: physical index, Z-scores, TRVI      *)
(***************************************************************************)
\* the rationals n[i] / d without the common factor f of d and every n[i]
OverCommon(n, d, f) ==
    [i \in DOMAIN n |-> [num |-> n[i] \div f, den |-> d \div f]]

\* lines 82-87: the weighted sum of the processed indicators, one rational
\* per row, all over the same denominator; NaN weights give NaN.
WeightedIndex(w, proc) ==
    IF \E c \in DOMAIN w : w[c] = None THEN [i \in DOMAIN proc |-> None]
    ELSE LET L  == LcmOfSet({ proc[i][c].den : i \in DOMAIN proc, c \in MetricNames })
             wd == w[CHOOSE c \in DOMAIN w : TRUE].den
             n  == [i \in DOMAIN proc |->
                      SumOver([c \in MetricNames |->
                          w[c].num * proc[i][c].num * (L \div proc[i][c].den)])]
         IN  OverCommon(n, wd * L, Gcd(wd * L, GcdOfSet(Range(n))))

\* StandardScaler().fit_transform on one column x (integers over a common
\* positive denominator): z = (x - mean) / std with the population std, a
\* zero std being replaced by 1.  The Z-score of row i is kept exactly as
\* [dev, var], standing for dev * sqrt(m) / sqrt(var), where
\* dev = m * x[i] - sum(x) and var = sum of dev^2; zero variance: 0 / 1.
ZScores(x) ==
    LET m   == Cardinality(DOMAIN x)
        tot == SumOver(x)
        dev == [i \in DOMAIN x |-> m * x[i] - tot]
        var == SumOver([i \in DOMAIN x |-> dev[i] * dev[i]])
    IN  IF var = 0 THEN [i \in DOMAIN x |-> [dev |-> 0, var |-> 1]]
        ELSE [i \in DOMAIN x |-> [dev |-> dev[i], var |-> var]]

\* unary minus on a Z-score
Neg(z) == [dev |-> 0 - z.dev, var |-> z.var]

\* lines 99-102: TRVI = -MHI_Z + -UTRI_physical_Z, kept as its two terms
TRVIIncomeAdded(mhi_z, utri_z) ==
    IF utri_z = None THEN None ELSE <<mhi_z, Neg(utri_z)>>
TRVI(mhi_z, utri_z) ==
    IF utri_z = None THEN None ELSE <<Neg(mhi_z), Neg(utri_z)>>

\* line 105: df_clean.join(df_scaled[['TRVI']]), one row
Join(row, trvi) ==
    [c \in DOMAIN row \cup {"TRVI"} |-> IF c = "TRVI" THEN trvi ELSE row[c]]

\* lines 82-105
BuildTRVI ==
    /\ phase = "weighted"
    /\ UTRI_physical' = WeightedIndex(weights_ewm, df_processed)
    /\ df_scaled' =
         LET mhi_z  == ZScores([i \in DOMAIN df_clean |->
                                   df_clean[i].Median_Household_Income.v])
             utri_z == IF \E i \in DOMAIN df_clean : UTRI_physical'[i] = None
                       THEN [i \in DOMAIN df_clean |-> None]
                       ELSE ZScores([i \in DOMAIN df_clean |-> UTRI_physical'[i].num])
         IN  [i \in DOMAIN df_clean |->
                [MHI_Z |-> mhi_z[i], UTRI_physical_Z |-> utri_z[i],
                 TRVI |-> TRVI(mhi_z[i], utri_z[i])]]
    /\ df_final' = [i \in DOMAIN df_clean |-> Join(df_clean[i], df_scaled'[i].TRVI)]
    /\ phase' = "trvi"
    /\ UNCHANGED <<pipeVars, df_clean, df_processed, weights_ewm, spatialVars,
                   giniVars>>

(***************************************************************************)
(* The second script on bounded cleaned tables                             *)
(***************************************************************************)
IncomeValues == 1..2

\* A complete row; degree_assortativity repeats the permeability value and
\* gini_edge_betweenness the clustering value.
CleanRow(inc, p, c) ==
    [Median_Household_Income |-> Cell(inc),
     global_permeability     |-> Cell(p),
     avg_clustering_coeff    |-> Cell(c),
     degree_assortativity    |-> Cell(p),
     gini_edge_betweenness   |-> Cell(c)]

\* Rows are numbered 0..NumRowKeys-1: (income, permeability, clustering).
NumRowKeys == Cardinality(IncomeValues) * (MaxMetric + 1) * (MaxMetric + 1)
RowOfKey(k) ==
    CleanRow(1 + (k \div ((MaxMetric + 1) * (MaxMetric + 1))),
             (k \div (MaxMetric + 1)) % (MaxMetric + 1),
             k % (MaxMetric + 1))

\* Tables of 0..MaxRows rows, one per multiset of rows (the computation
\* does not depend on the order of the rows): the non-decreasing key
\* sequences of length n with keys >= lo.
RECURSIVE SortedKeys(_, _)
SortedKeys(n, lo) ==
    IF n = 0 THEN { <<>> }
    ELSE UNION { { <<k>> \o t : t \in SortedKeys(n - 1, k) } :
                 k \in lo..(NumRowKeys - 1) }

TableOf(ks) == [i \in DOMAIN ks |-> RowOfKey(ks[i])]

InitEWM ==
    /\ PipeIdle
    /\ SpatialIdle
    /\ GiniIdle
    /\ phase = "clean"
    /\ \E n \in 0..MaxRows : \E ks \in SortedKeys(n, 0) : df_clean = TableOf(ks)
    /\ df_processed = None
    /\ weights_ewm = None
    /\ UTRI_physical = None
    /\ df_scaled = None
    /\ df_final = None

NextEWM ==
    \/ EntropyWeights
    \/ BuildTRVI

SpecEWM == InitEWM /\ [][NextEWM]_vars

Weighted == phase \in {"weighted", "trvi"}

\* C9 (as claimed): whatever table the weighting is given, the four weights
\* are numbers >= 0 and sum to 1.
C9_WeightsSumToOne ==
    Weighted =>
        /\ \A c \in MetricNames : weights_ewm[c] # None
        /\ \A c \in MetricNames : weights_ewm[c].num >= 0 /\ weights_ewm[c].den > 0
        /\ SumOver([c \in MetricNames |-> weights_ewm[c].num])
             = weights_ewm["global_permeability"].den

\* The value of TRVI t1 exceeds that of t2 (rows of one table: the first
\* terms share one positive scale, the second terms another).
TrviGreater(t1, t2) ==
    LET A  == t1[1].dev - t2[1].dev
        B  == t1[2].dev - t2[2].dev
    IN  IF A >= 0 /\ B >= 0 THEN A > 0 \/ B > 0
        ELSE IF A <= 0 /\ B <= 0 THEN FALSE
        ELSE IF A > 0 THEN A * A * t1[2].var > B * B * t1[1].var
        ELSE B * B * t1[1].var > A * A * t1[2].var

IncomeOf(i) == df_clean[i].Median_Household_Income.v

\* C10: of two rows with the same physical sub-index the one with the lower
\* income has the strictly higher TRVI, and of two rows with the same income
\* the one with the lower physical sub-index has the strictly higher TRVI.
C10_TRVIDecreasing ==
    phase = "trvi" =>
        \A i, j \in DOMAIN df_clean :
            /\ (UTRI_physical[i] # None /\ UTRI_physical[i] = UTRI_physical[j]
                    /\ IncomeOf(i) < IncomeOf(j)) =>
                  /\ df_scaled[i].TRVI # None /\ df_scaled[j].TRVI # None
                  /\ TrviGreater(df_scaled[i].TRVI, df_scaled[j].TRVI)
            /\ (UTRI_physical[i] # None /\ IncomeOf(i) = IncomeOf(j)
                    /\ UTRI_physical[i].num < UTRI_physical[j].num) =>
                  /\ df_scaled[i].TRVI # None /\ df_scaled[j].TRVI # None
                  /\ TrviGreater(df_scaled[i].TRVI, df_scaled[j].TRVI)

\* two rows with the same indicators and different incomes, among three
C10_Witness ==
    /\ phase = "trvi"
    /\ \E i, j, k \in DOMAIN df_clean :
         /\ UTRI_physical[i] # None
         /\ UTRI_physical[i] = UTRI_physical[j]
         /\ UTRI_physical[k].num > UTRI_physical[i].num
         /\ IncomeOf(i) < IncomeOf(j)
         /\ TrviGreater(df_scaled[i].TRVI, df_scaled[j].TRVI)

(***************************************************************************)
(* Properties of the normalisation and of the entropy                      *)
(***************************************************************************)
RawValue(i, c) == df_clean[i][c].v
RawMax(c) == SetMax({ RawValue(i, c) : i \in DOMAIN df_clean })
RawMin(c) == SetMin({ RawValue(i, c) : i \in DOMAIN df_clean })
IsOne(v)  == v.num = v.den
IsZero(v) == v.num = 0
InUnitInterval(v) == v.den > 0 /\ 0 <= v.num /\ v.num <= v.den

\* the value the claim gives the row with the highest / lowest raw value
AtHighest(c, v) == IF c = "global_permeability" THEN IsOne(v) ELSE IsZero(v)
AtLowest(c, v)  == IF c = "global_permeability" THEN IsZero(v) ELSE IsOne(v)

\* C24 (as claimed): every processed value lies in [0, 1]; in every column
\* the row with the highest raw permeability gets 1 and the lowest 0, and
\* for the other three metrics the highest gets 0 and the lowest 1.
C24_DirectionAsClaimed ==
    Weighted =>
        \A c \in MetricNames : \A i \in DOMAIN df_clean :
            /\ InUnitInterval(df_processed[i][c])
            /\ RawValue(i, c) = RawMax(c) => AtHighest(c, df_processed[i][c])
            /\ RawValue(i, c) = RawMin(c) => AtLowest(c, df_processed[i][c])

\* C24: every processed value lies in [0, 1]; in a column whose raw values
\* are not all equal the row with the highest raw permeability gets 1 and
\* the lowest 0, and for the other three metrics the highest gets 0 and the
\* lowest 1; in a column whose raw values are all equal every row gets 0
\* for permeability and 1 for the other three.
C24_Direction ==
    Weighted =>
        \A c \in MetricNames : \A i \in DOMAIN df_clean :
            /\ InUnitInterval(df_processed[i][c])
            /\ RawMax(c) # RawMin(c) =>
                 /\ RawValue(i, c) = RawMax(c) => AtHighest(c, df_processed[i][c])
                 /\ RawValue(i, c) = RawMin(c) => AtLowest(c, df_processed[i][c])
            /\ RawMax(c) = RawMin(c) => AtLowest(c, df_processed[i][c])

\* three rows with permeability 0, 1, 2 and clustering 2, 0, 1
C24_Witness ==
    /\ Weighted
    /\ \E i, j, k \in DOMAIN df_clean :
         /\ RawValue(i, "global_permeability") = 0
         /\ RawValue(j, "global_permeability") = 1
         /\ RawValue(k, "global_permeability") = 2
         /\ df_processed[i]["global_permeability"] = [num |-> 0, den |-> 2]
         /\ df_processed[j]["global_permeability"] = [num |-> 1, den |-> 2]
         /\ df_processed[k]["global_permeability"] = [num |-> 2, den |-> 2]
         /\ RawValue(i, "avg_clustering_coeff") = 2
         /\ df_processed[i]["avg_clustering_coeff"] = [num |-> 0, den |-> 2]
         /\ RawValue(j, "avg_clustering_coeff") = 0
         /\ df_processed[j]["avg_clustering_coeff"] = [num |-> 2, den |-> 2]

\* The entropy of a column is a number: the diversification 1 - entropy is
\* one, between 0 and 1.
EntropyFinite(col) ==
    /\ Diversification(col) # None
    /\ 0 <= Diversification(col).v
    /\ Diversification(col).v <= DScale

ProcessedSeries(c) == [i \in DOMAIN df_processed |-> df_processed[i][c]]

\* C25 (as claimed): the entropy of every processed column is a finite
\* number, whatever zeros the column holds, a column of zeros included.
C25_EntropyFiniteAsClaimed ==
    Weighted => \A c \in MetricNames : EntropyFinite(ProcessedSeries(c))

(***************************************************************************)
(* DC_TRVI_Spatial_Analysis.py:122-145: contiguity weights and Moran's I   *)
(*                                                                         *)
(* A polygon is the set of its vertices; Queen contiguity is a shared      *)
(* vertex.  The merged table is keyed by GEOID (the script's positional    *)
(* index numbers the same rows).  Moran's I is an exact rational.  The     *)
(* random permutations of esda enter through the number of permuted        *)
(* statistics that are >= the observed one.                                *)
(***************************************************************************)
\* Unit cells of a lattice, three lattice steps wide.  A square touches its
\* diagonal neighbour in a corner; an octagon (a square with cut corners)
\* touches only its horizontal and vertical neighbours.
Square(r, c) ==
    { <<3 * c, 3 * r>>, <<3 * c + 3, 3 * r>>,
      <<3 * c, 3 * r + 3>>, <<3 * c + 3, 3 * r + 3>> }
Octagon(r, c) ==
    { <<3 * c + 1, 3 * r>>, <<3 * c + 2, 3 * r>>,
      <<3 * c + 3, 3 * r + 1>>, <<3 * c + 3, 3 * r + 2>>,
      <<3 * c + 2, 3 * r + 3>>, <<3 * c + 1, 3 * r + 3>>,
      <<3 * c, 3 * r + 2>>, <<3 * c, 3 * r + 1>> }

\* Tract maps: a row of squares; a row whose last square lies apart; squares
\* two abreast; octagons two abreast.
LayoutKinds == {"row", "island", "grid", "rook"}
Polygon(kind, i, n) ==
    CASE kind = "row"    -> Square(0, i - 1)
      [] kind = "island" -> Square(0, IF i = n THEN i ELSE i - 1)
      [] kind = "grid"   -> Square((i - 1) \div 2, (i - 1) % 2)
      [] kind = "rook"   -> Octagon((i - 1) \div 2, (i - 1) % 2)

\* gpd.read_file('tl_2022_11_tract.shp') (line 122)
Shapefile(kind, n) ==
    [i \in 1..n |-> [GEOID |-> i, geometry |-> Polygon(kind, i, n)]]

\* line 133: gdf_tracts.merge(df_final, on='GEOID', how='inner')
InnerMerge(gdf, df) ==
    LET both == { g \in { gdf[i].GEOID : i \in DOMAIN gdf } :
                    \E k \in DOMAIN df : df[k].GEOID = g }
        left(g)  == gdf[CHOOSE i \in DOMAIN gdf : gdf[i].GEOID = g]
        right(g) == df[CHOOSE k \in DOMAIN df : df[k].GEOID = g]
    IN  [g \in both |->
            [c \in DOMAIN left(g) \cup DOMAIN right(g) |->
                IF c \in DOMAIN left(g) THEN left(g)[c] ELSE right(g)[c]]]

\* line 135: Queen.from_dataframe: the neighbours of a row are the other
\* rows whose polygon shares a vertex with its polygon.
Queen(gdf) ==
    [i \in DOMAIN gdf |->
        { j \in DOMAIN gdf : j # i /\ gdf[i].geometry \cap gdf[j].geometry # {} }]

\* line 136: weights.transform = 'r': each neighbour weighs 1 / (number of
\* neighbours); a row without neighbours keeps no weight.
RowStandardized(neighbors) ==
    [i \in DOMAIN neighbors |->
        [j \in neighbors[i] |-> [num |-> 1, den |-> Cardinality(neighbors[i])]]]

\* n * (y - mean(y)): the deviations, scaled by the number of rows
DeviationsUncentred(y) ==
    [i \in DOMAIN y |-> Cardinality(DOMAIN y) * y[i]]
Deviations(y) ==
    LET n   == Cardinality(DOMAIN y)
        tot == SumOver(y)
    IN  [i \in DOMAIN y |-> n * y[i] - tot]

\* esda Moran.I = (n / s0) * sum_ij w_ij z_i z_j / sum_i z_i^2 over all rows
\* of y, as a rational; NaN when s0 or the sum of squares is 0.
MoranI(y, w) ==
    LET n     == Cardinality(DOMAIN y)
        z     == Deviations(y)
        L     == LcmOfSet(UNION { { w[i][j].den : j \in DOMAIN w[i] } :
                                  i \in DOMAIN w })
        wl(i) == [j \in DOMAIN w[i] |-> w[i][j].num * (L \div w[i][j].den)]
        inum  == SumOver([i \in DOMAIN y |->
                    z[i] * SumOver([j \in DOMAIN w[i] |-> wl(i)[j] * z[j]])])
        s0    == SumOver([i \in DOMAIN y |-> SumOver(wl(i))])
        z2ss  == SumOver([i \in DOMAIN y |-> z[i] * z[i]])
    IN  IF s0 = 0 \/ z2ss = 0 THEN None
        ELSE [num |-> n * inum, den |-> s0 * z2ss]

Less(a, b) == a.num * b.den < b.num * a.den

\* np.random.permutation: the reassignments of the values to the rows
Reassignments(S) == { f \in [S -> S] : \A a, b \in S : f[a] = f[b] => a = b }

\* The statistics the permutations of y can give.
SimValues(y, w) ==
    { MoranI([i \in DOMAIN y |-> y[f[i]]], w) : f \in Reassignments(DOMAIN y) }

\* larger = (sim >= I).sum() over the permutations drawn: the numbers a draw
\* can give.  The identity is a permutation, so a statistic >= I can always
\* be drawn; one < I only if some permutation gives it; NaN >= NaN is False.
LargerOutcomes(y, w) ==
    LET I == MoranI(y, w) IN
    IF I = None THEN {0}
    ELSE IF \E s \in SimValues(y, w) : Less(s, I)
         THEN 0..NumPermutations
         ELSE {NumPermutations}

\* esda: if (permutations - larger) < larger: larger = permutations - larger
\*       p_sim = (larger + 1) / (permutations + 1)
PSimUnfolded(larger) ==
    [num |-> larger + 1, den |-> NumPermutations + 1]
PSim(larger) ==
    LET folded == IF NumPermutations - larger < larger
                  THEN NumPermutations - larger ELSE larger
    IN  [num |-> folded + 1, den |-> NumPermutations + 1]

\* Moran(y, weights) of line 144
Moran(y, w, larger) == [I |-> MoranI(y, w), p_sim |-> PSim(larger)]

\* line 140
MoranColumns ==
    << "Median_Household_Income", "global_permeability", "avg_clustering_coeff",
       "degree_assortativity", "gini_edge_betweenness", "TRVI" >>

\* TRVI is the sum of two terms, each an integer column times a positive
\* factor.  When one term is 0 in every row, Moran's I of TRVI is that of
\* the other term's integer column (I does not change under a positive
\* factor); when both vary, the series is not one of integers.
TrviMixed(gdf) ==
    /\ \E i \in DOMAIN gdf : gdf[i].TRVI[1].dev # 0
    /\ \E i \in DOMAIN gdf : gdf[i].TRVI[2].dev # 0

\* gdf_analysis[col] as integers: Moran's I is that of the column's values
\* over their common denominator, without their common factor
Series(gdf, col) ==
    IF col = "TRVI"
    THEN IF \E i \in DOMAIN gdf : gdf[i].TRVI[1].dev # 0
         THEN [i \in DOMAIN gdf |-> gdf[i].TRVI[1].dev]
         ELSE [i \in DOMAIN gdf |-> gdf[i].TRVI[2].dev]
    ELSE WithoutCommonFactor(Column(gdf, col))

\* lines 122-136: read the polygons, merge, build the weights
SpatialJoin ==
    /\ phase = "trvi"
    /\ gdf_tracts # <<>>
    /\ gdf_analysis' = InnerMerge(gdf_tracts, df_final)
    /\ weights' = RowStandardized(Queen(gdf_analysis'))
    /\ moran_col' = 1
    /\ phase' = "moran"
    /\ UNCHANGED <<pipeVars, ewmVars, gdf_tracts, moran, moran_results, giniVars>>

\* lines 140-145, one column: skipped if it holds a NaN.  Moran's I of a
\* TRVI column whose two terms both vary is kept as the call on the column,
\* with any count of larger statistics.
MoranStep ==
    /\ phase = "moran"
    /\ LET col == MoranColumns[moran_col] IN
       IF \E i \in DOMAIN gdf_analysis : gdf_analysis[i][col] = None
       THEN UNCHANGED <<moran, moran_results>>
       ELSE /\ IF col = "TRVI" /\ TrviMixed(gdf_analysis)
               THEN \E larger \in 0..NumPermutations :
                      moran' = [I |-> [fn |-> "Moran.I",
                                       y |-> [i \in DOMAIN gdf_analysis |->
                                                 gdf_analysis[i].TRVI]],
                                p_sim |-> PSim(larger)]
               ELSE \E larger \in LargerOutcomes(Series(gdf_analysis, col), weights) :
                      moran' = Moran(Series(gdf_analysis, col), weights, larger)
            /\ moran_results' =
                 [c \in DOMAIN moran_results \cup {col} |->
                     IF c = col THEN [Moran_I |-> moran'.I, p_value |-> moran'.p_sim]
                     ELSE moran_results[c]]
    /\ moran_col' = moran_col + 1
    /\ phase' = IF moran_col = Len(MoranColumns) THEN "reported" ELSE "moran"
    /\ UNCHANGED <<pipeVars, ewmVars, gdf_tracts, gdf_analysis, weights, giniVars>>

(***************************************************************************)
(* The second script on bounded exported tables and tract maps             *)
(***************************************************************************)
\* A row of dc_utri_analysis.csv
TableRow(t, inc, p, c, a, g) ==
    [GEOID |-> t,
     Median_Household_Income |-> inc,
     global_permeability     |-> p,
     avg_clustering_coeff    |-> c,
     degree_assortativity    |-> a,
     gini_edge_betweenness   |-> g]

\* Rows of four kinds: two complete ones, one without income, one whose
\* degree_assortativity is NaN.
RowKinds == {"low", "high", "no_income", "no_assortativity"}
RowOfKind(t, k) ==
    CASE k = "low"  -> TableRow(t, Cell(1), Cell(0), Cell(0), Cell(0), Cell(0))
      [] k = "high" -> TableRow(t, Cell(2), Cell(1), Cell(1), Cell(0), Cell(1))
      [] k = "no_income" ->
                       TableRow(t, None, Cell(2), Cell(0), Cell(1), Cell(0))
      [] k = "no_assortativity" ->
                       TableRow(t, Cell(2), Cell(2), Cell(1), None, Cell(2))

\* Tables of MaxRows rows of any kinds on a row of tracts, and tables of
\* 2..MaxRegions complete rows that differ in income only on every map.
InitSpatial ==
    /\ PipeIdleBut
    /\ EwmIdle
    /\ GiniIdle
    /\ phase = "exported"
    /\ \/ \E ks \in [1..MaxRows -> RowKinds] : \E kind \in {"row", "island"} :
            /\ final_output_df = [t \in 1..MaxRows |-> RowOfKind(t, ks[t])]
            /\ gdf_tracts = Shapefile(kind, MaxRows)
       \/ \E n \in 2..MaxRegions : \E inc \in [1..n -> IncomeValues] :
          \E kind \in LayoutKinds :
            /\ final_output_df =
                 [t \in 1..n |-> TableRow(t, Cell(inc[t]), Cell(0), Cell(0),
                                          Cell(0), Cell(0))]
            /\ gdf_tracts = Shapefile(kind, n)
    /\ gdf_analysis = None
    /\ weights = None
    /\ moran_col = 1
    /\ moran = None
    /\ moran_results = <<>>

NextSpatial ==
    \/ ReadAndClean
    \/ EntropyWeights
    \/ BuildTRVI
    \/ SpatialJoin
    \/ MoranStep

SpecSpatial == InitSpatial /\ [][NextSpatial]_vars

(***************************************************************************)
(* Properties of the second script on exported tables                      *)
(***************************************************************************)
\* The tract's row of the exported table has an income and all four metrics.
CompleteRow(t) ==
    \A c \in DropNaSubset : final_output_df[t][c] # None
CompleteRows == { t \in DOMAIN final_output_df : CompleteRow(t) }
AfterClean == phase \in {"clean", "weighted", "trvi", "moran", "reported"}
AfterTRVI == phase \in {"trvi", "moran", "reported"}

\* The Z-score of the tract's income when the mean and the standard
\* deviation are taken over the tracts of the set S.
IncomeZOver(S, t) ==
    LET m   == Cardinality(S)
        x   == [u \in S |-> final_output_df[u].Median_Household_Income.v]
        dev == [u \in S |-> m * x[u] - SumOver(x)]
        var == SumOver([u \in S |-> dev[u] * dev[u]])
    IN  IF var = 0 THEN [dev |-> 0, var |-> 1] ELSE [dev |-> dev[t], var |-> var]

\* C11: a tract with a null income or without a physical sub-index (a null
\* metric) is not among the rows that are standardized, and the mean and
\* standard deviation are those of the other tracts alone; it has no TRVI in
\* the output.  Every other tract has a row in the output, with a TRVI value
\* whenever its physical sub-index is a number.
C11_NullRowsGetNoTRVI ==
    /\ AfterClean => DOMAIN df_clean = CompleteRows
    /\ AfterTRVI =>
         /\ DOMAIN df_scaled = CompleteRows
         /\ DOMAIN df_final = CompleteRows
         /\ \A t \in CompleteRows :
              /\ df_scaled[t].MHI_Z = IncomeZOver(CompleteRows, t)
              /\ df_final[t].TRVI = df_scaled[t].TRVI
              /\ UTRI_physical[t] # None => df_final[t].TRVI # None
              /\ UTRI_physical[t] = None => df_final[t].TRVI = None

C11_Witness ==
    /\ AfterTRVI
    /\ \E t \in DOMAIN final_output_df :
         /\ final_output_df[t].Median_Household_Income = None
         /\ t \notin DOMAIN df_final
    /\ \E u, v \in DOMAIN df_final :
         /\ u # v
         /\ df_final[u].TRVI # None /\ df_final[v].TRVI # None
         /\ df_scaled[u].MHI_Z.dev # 0

(***************************************************************************)
(* Properties of the weights and of Moran's I                              *)
(***************************************************************************)
Analysed == DOMAIN gdf_analysis
Touch(i, j) ==
    i # j /\ gdf_analysis[i].geometry \cap gdf_analysis[j].geometry # {}
IncomeAt(i) == gdf_analysis[i].Median_Household_Income.v
IncomeReported == "Median_Household_Income" \in DOMAIN moran_results
IncomeI == moran_results["Median_Household_Income"].Moran_I

\* The tracts of B hang together: every split of B is crossed by a contact.
Contiguous(B) ==
    /\ B # {}
    /\ \A D \in SUBSET B : (D # {} /\ D # B) =>
           \E i \in D, j \in B \ D : Touch(i, j)

\* Income takes two values, the higher on the tracts H, the lower on the rest.
HighBlock(H) ==
    /\ H # {} /\ H # Analysed /\ H \subseteq Analysed
    /\ \A i, j \in H : IncomeAt(i) = IncomeAt(j)
    /\ \A i, j \in Analysed \ H : IncomeAt(i) = IncomeAt(j)
    /\ \A i \in H, j \in Analysed \ H : IncomeAt(i) > IncomeAt(j)

\* Adjacent tracts always hold different values, and some tracts are adjacent.
Checkerboard ==
    /\ \E H \in SUBSET Analysed : HighBlock(H)
    /\ \E i, j \in Analysed : Touch(i, j)
    /\ \A i, j \in Analysed : Touch(i, j) => IncomeAt(i) # IncomeAt(j)

\* No two tracts touch in a single corner only.
RookOnly ==
    \A i, j \in Analysed : Touch(i, j) =>
        Cardinality(gdf_analysis[i].geometry \cap gdf_analysis[j].geometry) >= 2

\* The tracts 1..n lie in a row, each touching the next one only.
InARow ==
    /\ \E n \in 1..MaxRegions : Analysed = 1..n
    /\ \A i, j \in Analysed : Touch(i, j) <=> (j = i + 1 \/ i = j + 1)

\* C16 (as claimed): Moran's I is positive whenever the indicator is high on
\* one contiguous block of tracts and low on a second contiguous block, and
\* negative for a checkerboard on tracts that touch along sides only.
C16_MoranSignsAsClaimed ==
    IncomeReported =>
        /\ \A H \in SUBSET Analysed :
             (HighBlock(H) /\ Contiguous(H) /\ Contiguous(Analysed \ H)) =>
                 (IncomeI # None /\ IncomeI.num > 0)
        /\ (RookOnly /\ Checkerboard) => (IncomeI # None /\ IncomeI.num < 0)

\* C16 (amended): on a row of tracts, Moran's I is positive when the
\* indicator is high on one end block and low on the other and each block
\* has at least two tracts; and it is negative for a checkerboard on tracts
\* that touch along sides only.
C16_MoranSigns ==
    IncomeReported =>
        /\ \A H \in SUBSET Analysed :
             ( /\ InARow /\ HighBlock(H)
               /\ Contiguous(H) /\ Contiguous(Analysed \ H)
               /\ Cardinality(H) >= 2 /\ Cardinality(Analysed \ H) >= 2 ) =>
                 (IncomeI # None /\ IncomeI.num > 0)
        /\ (RookOnly /\ Checkerboard) => (IncomeI # None /\ IncomeI.num < 0)

\* four tracts in a row, low low high high: I = 1/2
C16_Witness ==
    /\ IncomeReported
    /\ InARow /\ Analysed = 1..4
    /\ HighBlock({3, 4})
    /\ IncomeI # None /\ 2 * IncomeI.num = IncomeI.den

\* Two statistics are the same number (or both NaN).
SameStat(a, b) ==
    IF a = None \/ b = None THEN a = b ELSE a.num * b.den = b.num * a.den

WeightsBuilt == phase \in {"moran", "reported"}
HasNeighbour(i) == \E j \in Analysed : Touch(i, j)

\* C17 (as claimed): w_ij is nonzero exactly for distinct tracts that share
\* a boundary point, w_ii is 0, the weights of a tract with a neighbour sum
\* to 1, and a tract without a neighbour is left out of the statistic:
\* Moran's I is that of the tracts that have a neighbour.
C17_WeightsAsClaimed ==
    /\ WeightsBuilt =>
         /\ \A i, j \in Analysed :
              (j \in DOMAIN weights[i] /\ weights[i][j].num # 0) <=> Touch(i, j)
         /\ \A i \in Analysed : i \notin DOMAIN weights[i]
         /\ \A i \in Analysed : HasNeighbour(i) =>
              /\ \A j, k \in DOMAIN weights[i] : weights[i][j].den = weights[i][k].den
              /\ \E j \in DOMAIN weights[i] :
                   SumOver([k \in DOMAIN weights[i] |-> weights[i][k].num])
                     = weights[i][j].den
    /\ IncomeReported =>
         LET K == { i \in Analysed : HasNeighbour(i) }
         IN  SameStat(IncomeI, MoranI([i \in K |-> IncomeAt(i)],
                                      [i \in K |-> weights[i]]))

\* C18 (as claimed): Moran's I of a column is computed over exactly the
\* tracts of the table with a value in that column, and is reported whenever
\* some tract has one.
InputColumns == MetricNames \cup {"Median_Household_Income"}
WithValue(col) ==
    { t \in DOMAIN final_output_df : final_output_df[t][col] # None }

C18_MoranRowsAsClaimed ==
    \A col \in InputColumns :
        /\ (WeightsBuilt /\ col \in DOMAIN moran_results) =>
               Analysed = WithValue(col)
        /\ (phase \in {"reported", "aborted"} /\ WithValue(col) # {}) =>
               col \in DOMAIN moran_results

\* C19 (as claimed): the p-value is the share of the permuted statistics at
\* least as extreme as the observed I, in either direction: it lies in
\* [0, 1], and where every reassignment of the values gives the observed I
\* again (every permuted statistic is as extreme as I) it is 1.
C19_PValueAsClaimed ==
    (IncomeReported /\ IncomeI # None) =>
        LET p == moran_results["Median_Household_Income"].p_value
            y == [i \in Analysed |-> IncomeAt(i)]
        IN  /\ p.den > 0 /\ 0 <= p.num /\ p.num <= p.den
            /\ (\A s \in SimValues(y, weights) : SameStat(s, IncomeI)) =>
                   p.num = p.den

\* C20 (as claimed): a null metric leaves the tract's other metrics in the
\* weighting: the column of each metric that is normalized and whose entropy
\* is taken holds every tract with a value for that metric.
C20_FailureScopedAsClaimed ==
    phase \in {"weighted", "trvi", "moran", "reported"} =>
        \A c \in MetricNames :
            DOMAIN df_processed =
                { t \in DOMAIN final_output_df : final_output_df[t][c] # None }

(***************************************************************************)
(* The per-tract loop on one tract of streets of every shape               *)
(***************************************************************************)
ShapeNodes(k) == 1..k
ShapePairs(k) == { p \in ShapeNodes(k) \X ShapeNodes(k) : p[1] < p[2] }

\* How the streets between linked nodes are drawn: one way (from the lower
\* node), both ways, or one way with a parallel segment.
StreetModes == {"oneway", "twoway", "doubled"}
Streets(pairs, mode) ==
    { <<p[1], p[2], 0>> : p \in pairs } \cup
    (IF mode = "twoway" THEN { <<p[2], p[1], 0>> : p \in pairs }
     ELSE IF mode = "doubled" THEN { <<p[1], p[2], 1>> : p \in pairs }
     ELSE {})

\* The first tract holds the streets; the others hold no node.
InitMetrics ==
    /\ \E k \in 0..MaxShape : \E pairs \in SUBSET ShapePairs(k) :
       \E mode \in StreetModes :
         /\ G = Streets(pairs, mode)
         /\ nodes_within = [t \in Tracts |-> IF t = 1 THEN ShapeNodes(k) ELSE {}]
    /\ node_order = [k \in 1..MaxShape |-> k]
    /\ income = [t \in Tracts |-> Cell(50000 + t)]
    /\ iterrows = [k \in Tracts |-> k]
    /\ tract = 1
    /\ subgraph = None
    /\ results = <<>>
    /\ raised = {}
    /\ phase = "select"
    /\ final_output_df = None
    /\ EwmIdle
    /\ SpatialIdle
    /\ GiniIdle

NextMetrics ==
    \/ SelectNodes
    \/ Clip
    \/ Reduce
    \/ ComputeMetrics
    \/ Merge

SpecMetrics == InitMetrics /\ [][NextMetrics]_vars

\* u and v are joined by a street, whatever its direction.
Linked(g, u, v) == \E e \in g.edges : {e[1], e[2]} = {u, v} /\ u # v

\* The linked pairs of nodes.
Links(g) == { p \in g.nodes \X g.nodes : Linked(g, p[1], p[2]) }

\* The hop distance from s to t through the nodes of mid only, over the
\* linked pairs; inf where there is no such path.
RECURSIVE Hop(_, _, _, _, _)
Hop(links, inf, mid, s, t) ==
    IF mid = {} THEN (IF <<s, t>> \in links THEN 1 ELSE inf)
    ELSE LET k    == CHOOSE k \in mid : TRUE
             rest == mid \ {k}
             d0   == Hop(links, inf, rest, s, t)
         IN  IF k \in {s, t} \/ d0 = 1 THEN d0
             ELSE LET d1 == Hop(links, inf, rest, s, k) + Hop(links, inf, rest, k, t)
                  IN  IF d1 >= d0 THEN d0 ELSE d1

RECURSIVE Factorial(_)
Factorial(n) == IF n <= 1 THEN 1 ELSE n * Factorial(n - 1)

\* Sum of 1 / (hop distance) over the ordered pairs of distinct nodes, in
\* units of 1 / F; a pair without a path adds 0.
InverseHopSum(g, F) ==
    LET n     == Cardinality(g.nodes)
        links == Links(g)
    IN  SumOver([p \in { q \in g.nodes \X g.nodes : q[1] # q[2] } |->
                    LET d == Hop(links, n, g.nodes, p[1], p[2])
                    IN  IF d >= n THEN 0 ELSE F \div d])

CompleteView(g) == \A u, v \in g.nodes : u # v => Linked(g, u, v)

RecordedFor(k) == ReducedSubgraphOf(results[k].GEOID)

\* C13: a recorded global_permeability is the mean over the ordered pairs of
\* distinct nodes of 1 / (hop distance), direction and parallel streets
\* ignored and a pair without a path adding 0; it is exactly 1 where every
\* two nodes are linked.
C13_GlobalPermeability ==
    \A k \in DOMAIN results :
        (IsMetricsRecord(results[k]) /\ results[k].global_permeability # None) =>
            LET g == RecordedFor(k)
                n == Cardinality(g.nodes)
                F == Factorial(n - 1)
                value == Number(results[k].global_permeability)
            IN  /\ value.den > 0
                /\ value.num * F * n * (n - 1) = InverseHopSum(g, F) * value.den
                /\ CompleteView(g) => value.num = value.den

\* four nodes, every two linked by streets in both directions
C13_Witness ==
    \E k \in DOMAIN results :
        /\ IsMetricsRecord(results[k])
        /\ results[k].global_permeability # None
        /\ Cardinality(RecordedFor(k).nodes) = 4
        /\ Cardinality(RecordedFor(k).edges) = 12
        /\ CompleteView(RecordedFor(k))
        /\ Number(results[k].global_permeability) = [num |-> 72, den |-> 72]

\* The local clustering coefficient of v in units of 1 / F: the linked pairs
\* among its neighbours over all pairs of its neighbours, 0 for fewer than
\* two neighbours.
LocalClustering(g, v, F) ==
    LET nb    == { u \in g.nodes : Linked(g, u, v) }
        d     == Cardinality(nb)
        pairs == { p \in SUBSET nb : Cardinality(p) = 2 }
        links == { p \in pairs : \E a, b \in p : Linked(g, a, b) }
    IN  IF d < 2 THEN 0
        ELSE (F * Cardinality(links)) \div Cardinality(pairs)

TriangleView(g) == Cardinality(g.nodes) = 3 /\ CompleteView(g)
StarView(g) ==
    \E c \in g.nodes :
        \A u, v \in g.nodes : u # v => (Linked(g, u, v) <=> c \in {u, v})

\* C14: a recorded avg_clustering_coeff is the mean over all nodes of the
\* local clustering coefficient, direction and parallel streets ignored and
\* a node with fewer than two neighbours adding 0; it is 1 for a triangle
\* and 0 for a star.
C14_AverageClustering ==
    \A k \in DOMAIN results :
        (IsMetricsRecord(results[k]) /\ results[k].avg_clustering_coeff # None) =>
            LET g == RecordedFor(k)
                n == Cardinality(g.nodes)
                F == Factorial(n)
                value == Number(results[k].avg_clustering_coeff)
            IN  /\ value.den > 0
                /\ value.num * F * n =
                     SumOver([v \in g.nodes |-> LocalClustering(g, v, F)]) * value.den
                /\ TriangleView(g) => value.num = value.den
                /\ StarView(g) => value.num = 0

\* a star with three leaves
C14_Witness ==
    \E k \in DOMAIN results :
        /\ IsMetricsRecord(results[k])
        /\ results[k].avg_clustering_coeff # None
        /\ Cardinality(RecordedFor(k).nodes) = 4
        /\ StarView(RecordedFor(k))
        /\ Number(results[k].avg_clustering_coeff).num = 0

\* Every street leaves a node of the same out-degree, or every street
\* enters a node of the same in-degree.
ZeroDegreeVariance(g) ==
    \/ \A e, f \in g.edges :
         Cardinality({ h \in g.edges : h[1] = e[1] }) =
         Cardinality({ h \in g.edges : h[1] = f[1] })
    \/ \A e, f \in g.edges :
         Cardinality({ h \in g.edges : h[2] = e[2] }) =
         Cardinality({ h \in g.edges : h[2] = f[2] })

OtherMetrics == MetricNames \ {"degree_assortativity"}

\* C15: where the degrees over the streets of an ok subgraph have zero
\* variance, the record's degree_assortativity is null, never a number, and
\* each of the other three metrics whose call did not raise is recorded;
\* the exported row says the same.
C15_ZeroVarianceIsNull ==
    \A k \in DOMAIN results :
        (IsMetricsRecord(results[k]) /\ ZeroDegreeVariance(RecordedFor(k))) =>
            LET t == results[k].GEOID IN
            /\ results[k].degree_assortativity = None
            /\ \A m \in OtherMetrics :
                   <<t, m>> \notin raised => results[k][m] # None
            /\ phase = "exported" =>
                 /\ final_output_df[t].degree_assortativity = None
                 /\ \A m \in OtherMetrics :
                        <<t, m>> \notin raised => final_output_df[t][m] # None

\* a triangle with every street in both directions, no call raising
C15_Witness ==
    /\ phase = "exported"
    /\ raised = {}
    /\ \E k \in DOMAIN results :
         /\ IsMetricsRecord(results[k])
         /\ TriangleView(RecordedFor(k))
         /\ Cardinality(RecordedFor(k).edges) = 6
         /\ final_output_df[results[k].GEOID].degree_assortativity = None
         /\ \A m \in OtherMetrics : final_output_df[results[k].GEOID][m] # None

(***************************************************************************)
(* A city whose every tract holds one triangle of streets: the two scripts *)
(* one after the other                                                     *)
(***************************************************************************)
TriangleKinds == {"oneway", "ring", "twoway"}

\* The triangle on the nodes b+1, b+2, b+3.
Triangle(kind, b) ==
    IF kind = "ring"
    THEN { <<b + 1, b + 2, 0>>, <<b + 2, b + 3, 0>>, <<b + 3, b + 1, 0>> }
    ELSE Streets({ <<b + 1, b + 2>>, <<b + 1, b + 3>>, <<b + 2, b + 3>> }, kind)

InitCity ==
    /\ \E kinds \in [Tracts -> TriangleKinds] :
         G = UNION { Triangle(kinds[t], 3 * (t - 1)) : t \in Tracts }
    /\ nodes_within = [t \in Tracts |-> (3 * t - 2)..(3 * t)]
    /\ node_order = [k \in 1..(3 * NumTracts) |-> k]
    /\ \E v \in IncomeValues : income = [t \in Tracts |-> Cell(v)]
    /\ iterrows = [k \in Tracts |-> k]
    /\ tract = 1
    /\ subgraph = None
    /\ results = <<>>
    /\ raised = {}
    /\ phase = "select"
    /\ final_output_df = None
    /\ EwmIdle
    /\ SpatialIdle
    /\ GiniIdle

NextCity ==
    \/ SelectNodes
    \/ Clip
    \/ Reduce
    \/ ComputeMetrics
    \/ Merge
    \/ ReadAndClean
    \/ EntropyWeights
    \/ BuildTRVI

SpecCity == InitCity /\ [][NextCity]_vars

\* The same kind of triangle in every tract.
SameTriangles ==
    \E kind \in TriangleKinds :
        G = UNION { Triangle(kind, 3 * (t - 1)) : t \in Tracts }

\* Two cells hold the same value.
SameCell(a, b) ==
    IF a = None \/ b = None THEN a = b
    ELSE Number(a).num * Number(b).den = Number(b).num * Number(a).den

\* C12 (as claimed): where every tract holds the same triangle and has the
\* same income and no metric call raises, the tracts' metric vectors are
\* equal, the run of the two scripts is not cut short, and every tract gets
\* a TRVI, the same for all.
C12_TrianglesAsClaimed ==
    (SameTriangles /\ raised = {}) =>
        /\ phase # "aborted"
        /\ phase \in {"exported", "clean", "weighted", "trvi"} =>
             \A t1, t2 \in Tracts : \A m \in MetricNames :
                 SameCell(final_output_df[t1][m], final_output_df[t2][m])
        /\ phase = "trvi" =>
             /\ DOMAIN df_final = Tracts
             /\ \A t \in Tracts : df_final[t].TRVI # None
             /\ \A t1, t2 \in Tracts : df_final[t1].TRVI = df_final[t2].TRVI

(***************************************************************************)
(* The two scripts, one after the other, on a city of three-node tracts    *)
(* whose incomes may be missing                                            *)
(***************************************************************************)
\* Streets of one tract on the nodes b+1..b+3: a triangle of one-way
\* streets, or the same with one street back from the last node to the
\* first.
RunKinds == {"oneway", "return"}
TractStreets(kind, b) ==
    IF kind = "return"
    THEN Triangle("oneway", b) \cup { <<b + 3, b + 1, 0>> }
    ELSE Triangle(kind, b)

\* The first tract's cell of the 2022 income table: no row, the sentinel,
\* or an income; the other tracts have an income, 2 and 1 in turn.
RunIncomes ==
    { [t \in Tracts |-> IF t = 1 THEN c ELSE Cell(1 + ((t + 1) % 2))] :
        c \in {None, Cell(CensusSentinel), Cell(1)} }

InitRun ==
    /\ \E kinds \in [Tracts -> RunKinds] :
         G = UNION { TractStreets(kinds[t], 3 * (t - 1)) : t \in Tracts }
    /\ nodes_within = [t \in Tracts |-> (3 * t - 2)..(3 * t)]
    /\ node_order = [k \in 1..(3 * NumTracts) |-> k]
    /\ income \in RunIncomes
    /\ iterrows = [k \in Tracts |-> k]
    /\ tract = 1
    /\ subgraph = None
    /\ results = <<>>
    /\ raised = {}
    /\ phase = "select"
    /\ final_output_df = None
    /\ EwmIdle
    /\ gdf_tracts = Shapefile("row", NumTracts)
    /\ gdf_analysis = None
    /\ weights = None
    /\ moran_col = 1
    /\ moran = None
    /\ moran_results = <<>>
    /\ GiniIdle

NextRun ==
    \/ SelectNodes
    \/ Clip
    \/ Reduce
    \/ ComputeMetrics
    \/ Merge
    \/ ReadAndClean
    \/ EntropyWeights
    \/ BuildTRVI
    \/ SpatialJoin
    \/ MoranStep

SpecRun == InitRun /\ [][NextRun]_vars

(***************************************************************************)
(* Properties of the run of the two scripts                                *)
(***************************************************************************)
InLoop == phase \in {"select", "clip", "reduce", "metrics"}

\* every tract has its one record
AllResults ==
    /\ Len(results) = NumTracts
    /\ \A t \in Tracts :
         Cardinality({ k \in DOMAIN results : results[k].GEOID = t }) = 1

\* the weights recomputed from the exported rows that have every value
WeightsOfComplete ==
    NormaliseWeights([c \in MetricNames |->
        Diversification(ProcessedColumn(DropNa(final_output_df), c))])

\* row i's sub-index is the sum over the four indicators of weight times
\* processed value, with the weights of weights_ewm
SumOfWeighted(i) ==
    IF \E c \in MetricNames : weights_ewm[c] = None
    THEN UTRI_physical[i] = None
    ELSE LET L  == LcmOfSet({ df_processed[i][c].den : c \in MetricNames })
             wd == SumOver([c \in MetricNames |-> weights_ewm[c].num])
             n  == SumOver([c \in MetricNames |->
                      weights_ewm[c].num * df_processed[i][c].num
                          * (L \div df_processed[i][c].den)])
         IN  /\ \A c \in MetricNames : weights_ewm[c].den = wd
             /\ UTRI_physical[i].num * (wd * L) = UTRI_physical[i].den * n

HasWeights == phase \in {"weighted", "trvi", "moran", "reported"}

Barriers ==
    /\ ~InLoop => AllResults
    /\ IF HasWeights
       THEN /\ AllResults /\ final_output_df # None
            /\ DOMAIN df_processed = CompleteRows
            /\ phase = "weighted" => weights_ewm = WeightsOfComplete
       ELSE weights_ewm = None /\ df_processed = None
    /\ IF AfterTRVI
       THEN /\ DOMAIN UTRI_physical = CompleteRows
            /\ phase = "trvi" => \A i \in CompleteRows : SumOfWeighted(i)
            /\ DOMAIN df_scaled = CompleteRows
            /\ DOMAIN df_final = CompleteRows
            /\ \A i \in CompleteRows : df_final[i].TRVI = df_scaled[i].TRVI
       ELSE UTRI_physical = None /\ df_scaled = None /\ df_final = None
    /\ IF WeightsBuilt
       THEN DOMAIN gdf_analysis = CompleteRows
       ELSE gdf_analysis = None /\ weights = None /\ moran_results = <<>>

\* the weights and the sub-indices, once there, stay as they are
WeightsOnce ==
    /\ weights_ewm # None => weights_ewm' = weights_ewm /\ df_processed' = df_processed
    /\ AfterTRVI => UTRI_physical' = UTRI_physical /\ df_final' = df_final

\* C22: the weights are computed once, after every tract has its record,
\* from the metric vectors of all the tracts with every value, and the same
\* four weights give every tract's physical sub-index; the Z-scores and
\* Moran's I are computed only after every tract's sub-index and TRVI.
C22_GlobalBarriers == []Barriers /\ [][WeightsOnce]_vars

\* both tracts in the weighting, with different sub-indices
C22_Witness ==
    /\ phase = "reported"
    /\ DOMAIN df_clean = Tracts
    /\ \A c \in MetricNames : weights_ewm[c] # None
    /\ \E i, j \in Tracts : UTRI_physical[i].num # UTRI_physical[j].num
    /\ "TRVI" \in DOMAIN moran_results

\* the tract has no row in the 2022 income table, or the sentinel
MissingIncome(t) == income[t] \in {None, Cell(CensusSentinel)}
Exported == phase \in {"exported", "clean", "weighted", "trvi", "moran", "reported"}

\* C27: a tract whose income is the sentinel, or that has no income row, has
\* a null income in the exported table and its four metrics computed and
\* exported; it is not among the rows whose income is standardized (the
\* mean and the standard deviation are those of the other rows, none of
\* which holds the sentinel) and it gets no TRVI.
C27_MissingIncome ==
    \A t \in Tracts : MissingIncome(t) =>
        /\ Exported =>
             /\ final_output_df[t].Median_Household_Income = None
             /\ IsMetricsRecord(ResultsRow(t))
             /\ \A m \in MetricNames :
                  final_output_df[t][m] = ResultsCell(RecordOf(t), m)
        /\ AfterClean =>
             /\ t \notin DOMAIN df_clean
             /\ \A u \in DOMAIN df_clean :
                  df_clean[u].Median_Household_Income # Cell(CensusSentinel)
        /\ AfterTRVI =>
             /\ t \notin DOMAIN df_scaled
             /\ t \notin DOMAIN df_final
             /\ \A u \in DOMAIN df_scaled :
                  df_scaled[u].MHI_Z = IncomeZOver(DOMAIN df_clean \ {t}, u)
        /\ WeightsBuilt => t \notin DOMAIN gdf_analysis

\* the first tract has the sentinel and four metric values in the export,
\* and the other tract alone is in the output with a TRVI column
C27_Witness ==
    /\ phase = "reported"
    /\ income[1] = Cell(CensusSentinel)
    /\ \A m \in MetricNames : final_output_df[1][m] # None
    /\ DOMAIN df_final = Tracts \ {1}

====
